---- MODULE Spec2Model ----
(***************************************************************************)
(* The transaction-signing session of the Ergo Ledger application driver:  *)
(* signTx streams an attested transaction to the device, one command at a  *)
(* time, and returns the signature bytes of the last response.             *)
(*                                                                         *)
(* Two variants of the driver are in the source: src/interactions/         *)
(* signTx.ts (driver = "signTx.ts") and the second half of src/erg.ts      *)
(* (driver = "erg.ts").  Buffers are sequences of bytes, hex strings are   *)
(* sequences of one-character strings.                                     *)
(***************************************************************************)
EXTENDS Integers, Sequences, FiniteSets, TLC

\* ------------------------------------------------------------------ bounds
MaxDataLength == 2
MaxInputs == 2
MaxOutputs == 2

\* ------------------------------------------------------- protocol constants
START_SIGNING == 1
START_TRANSACTION == 16
ADD_TOKEN_IDS == 17
ADD_INPUT_BOX_FRAME == 18
ADD_INPUT_BOX_CONTEXT_EXTENSION_CHUNK == 19
ADD_DATA_INPUTS == 20
ADD_OUTPUT_BOX_START == 21
ADD_OUTPUT_BOX_ERGO_TREE_CHUNK == 22
ADD_OUTPUT_BOX_MINERS_FEE_TREE == 23
ADD_OUTPUT_BOX_CHANGE_TREE == 24
ADD_OUTPUT_BOX_TOKENS == 25
ADD_OUTPUT_BOX_REGISTERS_CHUNK == 26
CONFIRM_AND_SIGN == 32

WITHOUT_TOKEN == 1
WITH_TOKEN == 2

MAX_PACKET_SIZE == 7

\* Network tags of the address library (Network.Mainnet, Network.Testnet).
Mainnet == 0
Testnet == 16

\* Status word of a successful exchange and one of a refused exchange.
RETURN_CODE_OK == 36864
RETURN_CODE_DENIED == 27013

\* The miner-fee scripts as hex strings.  The source constants are 105 bytes
\* long and differ in two bytes only ("a00b" on mainnet, "9001" on testnet);
\* the model keeps those two bytes.
MAINNET_MINER_FEE_TREE == <<"a", "0", "0", "b">>
TESTNET_FEE_TREE == <<"9", "0", "0", "1">>
MINER_FEE_TREE == <<"a", "0", "0", "b">>

\* ----------------------------------------------------------- binary codec
RECURSIVE Concat(_)
Concat(ss) == IF ss = <<>> THEN <<>> ELSE Head(ss) \o Concat(Tail(ss))

\* Big-endian unsigned integer of w bytes.
RECURSIVE UintBE(_, _)
UintBE(n, w) == IF w = 0 THEN <<>> ELSE Append(UintBE(n \div 256, w - 1), n % 256)

uint8(n) == UintBE(n, 1)
uint16(n) == UintBE(n, 2)
uint32(n) == UintBE(n, 4)
uint64(n) == UintBE(n, 8)

\* The value serialize.uint32 refuses: indexOf's "not found".
IsUint(n) == n >= 0

HexDigits == <<"0", "1", "2", "3", "4", "5", "6", "7", "8", "9", "a", "b", "c", "d", "e", "f">>

\* Buffer.toString("hex") / Deserialize.hex: bytes to a lowercase hex string.
ToHex(bytes) == Concat([k \in 1..Len(bytes) |-> <<HexDigits[(bytes[k] \div 16) + 1], HexDigits[(bytes[k] % 16) + 1]>>])

\* Value of one hex digit, either case.
DigitValue(ch) ==
    CASE ch = "A" -> 10 [] ch = "B" -> 11 [] ch = "C" -> 12
      [] ch = "D" -> 13 [] ch = "E" -> 14 [] ch = "F" -> 15
      [] OTHER -> (CHOOSE v \in 0..15 : HexDigits[v + 1] = ch)

\* Serialize.hex: a hex string (either case) to bytes.
FromHex(hex) == [k \in 1..(Len(hex) \div 2) |-> 16 * DigitValue(hex[2 * k - 1]) + DigitValue(hex[2 * k])]

\* A derivation path is a sequence of components [h |-> hardened, n |-> index].
\* Each is a 32-bit integer with the top bit set when hardened.
PathComponent(comp) == [uint32(comp.n) EXCEPT ![1] = @ + (IF comp.h THEN 128 ELSE 0)]

\* Serialize.bip32Path / serialize.path: a length byte, then the components.
bip32Path(path) == <<Len(path)>> \o Concat([k \in 1..Len(path) |-> PathComponent(path[k])])

\* Serialize.array: the concatenation of the encoded items.
SerializeArray(encoded) == Concat(encoded)

\* Serialize.arrayAndChunk / serialize.arrayAsMappedChunks, on the encoded
\* items: packets of at most maxSize items each, in order.
arrayAndChunk(encoded, maxSize) ==
    [p \in 1..((Len(encoded) + maxSize - 1) \div maxSize) |->
        SerializeArray(SubSeq(encoded, (p - 1) * maxSize + 1,
                              IF p * maxSize < Len(encoded) THEN p * maxSize ELSE Len(encoded)))]

\* Device.sendData: slices of at most MaxDataLength bytes, in order.
DataChunks(buf) ==
    [p \in 1..((Len(buf) + MaxDataLength - 1) \div MaxDataLength) |->
        SubSeq(buf, (p - 1) * MaxDataLength + 1,
               IF p * MaxDataLength < Len(buf) THEN p * MaxDataLength ELSE Len(buf))]

\* Array.prototype.indexOf, zero-based, -1 when absent.
IndexOf(list, x) ==
    IF \E k \in 1..Len(list) : list[k] = x
    THEN (CHOOSE k \in 1..Len(list) : list[k] = x /\ \A m \in 1..(k - 1) : list[m] # x) - 1
    ELSE -1

\* ErgoAddress.fromErgoTree(tree).toString(): the address of a script; two
\* scripts have the same address only when they are the same script.
AddressOf(tree) == <<"address">> \o tree


\* ----------------------------------------------------------- optional values
None == <<>>
Some(v) == <<v>>
IsDefined(o) == o # <<>>
Val(o) == o[1]

\* JavaScript truthiness of an optional number: undefined and 0 are falsy.
Truthy(o) == IsDefined(o) /\ Val(o) # 0

\* --------------------------------------------------------------- the inputs
SeqsUpTo(S, n) == UNION {[1..k -> S] : k \in 0..n}

Hardened(n) == [h |-> TRUE, n |-> n]
Plain(n) == [h |-> FALSE, n |-> n]

\* m/44'/429'/0'/0/0 and the change path m/44'/429'/0'/1/3
SignPath == <<Hardened(44), Hardened(429), Hardened(0), Plain(0), Plain(0)>>
ChangePath == <<Hardened(44), Hardened(429), Hardened(0), Plain(1), Plain(3)>>

FeeMainScript == FromHex(MAINNET_MINER_FEE_TREE)
FeeTestScript == FromHex(TESTNET_FEE_TREE)
ChangeScript == <<0, 8>>
ExternalScript == [k \in 1..(MaxDataLength + 1) |-> 205]
Scripts == {FeeMainScript, FeeTestScript, ChangeScript, ExternalScript}

LongBuffer == [k \in 1..(MaxDataLength + 1) |-> 238]

TokenA == <<"a", "b">>
TokenB == <<"c", "d">>
TokenAUpper == <<"A", "B">>
Token(id) == [id |-> id, amount |-> 5]

Box(tree, tokens, registers) ==
    [value |-> 1000000, ergoTree |-> tree, creationHeight |-> 100,
     tokens |-> tokens, registers |-> registers]

\* An attested input at position b of the input list: its frames are opaque
\* buffers, here tagged with the position and the frame number.
InputShapes == [nframes : {1, 2}, extension : {None, Some(<<>>), Some(LongBuffer)}]
AttestedBox(b, shape) ==
    [frames |-> [k \in 1..shape.nframes |-> <<b, k>>], extension |-> shape.extension]
Inputs(shapes) == [b \in 1..Len(shapes) |-> AttestedBox(b, shapes[b])]

DataInputIds(n) == [k \in 1..n |-> ToHex(<<k>>)]

\* The distinct-token-id table of a list of outputs: every token id referenced
\* by an output, as bytes, de-duplicated, in order of first appearance.
RECURSIVE Dedup(_, _)
Dedup(ids, seen) ==
    IF ids = <<>> THEN seen
    ELSE IF \E k \in 1..Len(seen) : seen[k] = Head(ids)
         THEN Dedup(Tail(ids), seen)
         ELSE Dedup(Tail(ids), Append(seen, Head(ids)))
TokenIdBytes(t) == FromHex(t.id)
BoxTokenIds(box) == [k \in 1..Len(box.tokens) |-> TokenIdBytes(box.tokens[k])]
DistinctTokenIds(outputs) == Dedup(Concat([k \in 1..Len(outputs) |-> BoxTokenIds(outputs[k])]), <<>>)

Drivers == {"signTx.ts", "erg.ts"}

BaseTx ==
    [inputs |-> Inputs(<<[nframes |-> 2, extension |-> None]>>),
     dataInputs |-> <<>>,
     outputs |-> <<Box(ExternalScript, <<>>, <<>>)>>,
     distinctTokenIds |-> <<>>,
     changeMap |-> [address |-> AddressOf(ToHex(ChangeScript)), path |-> Some(ChangePath)]]

Base ==
    [driver |-> "signTx.ts", tx |-> BaseTx, signPath |-> SignPath,
     network |-> Mainnet, authToken |-> None]

\* Calls that differ in the header arguments and in the data inputs.
HeaderCalls ==
    {[Base EXCEPT !.driver = d, !.network = n, !.authToken = a, !.tx.dataInputs = DataInputIds(k)] :
        d \in Drivers, n \in {Mainnet, Testnet}, a \in {None, Some(0), Some(7)},
        k \in {0, 1, MAX_PACKET_SIZE + 1}}

\* Calls that differ in the attested inputs.
InputCalls ==
    {[Base EXCEPT !.driver = d, !.tx.inputs = Inputs(shapes)] :
        d \in Drivers, shapes \in SeqsUpTo(InputShapes, MaxInputs)}

\* Calls that differ in the scripts of the outputs and in the change descriptor.
ChangeAddresses == {AddressOf(ToHex(ChangeScript)), AddressOf(ToHex(FeeMainScript))}
ScriptBoxes(trees) == [k \in 1..Len(trees) |-> Box(trees[k], <<>>, <<>>)]
ClassifyCalls ==
    {[Base EXCEPT !.driver = d, !.network = n,
                  !.tx.outputs = ScriptBoxes(trees),
                  !.tx.changeMap = [address |-> addr, path |-> path]] :
        d \in Drivers, n \in {Mainnet, Testnet}, trees \in SeqsUpTo(Scripts, MaxOutputs),
        addr \in ChangeAddresses, path \in {None, Some(ChangePath)}}

\* Calls that differ in the tokens of the outputs and in the table passed
\* along: the table of the outputs, or one that lacks ids or orders them
\* differently.
TokenLists ==
    {<<>>, <<Token(TokenA)>>, <<Token(TokenA), Token(TokenB)>>,
     <<Token(TokenB), Token(TokenA)>>, <<Token(TokenAUpper)>>}
TokenBoxes(lists) == [k \in 1..Len(lists) |-> Box(ExternalScript, lists[k], <<>>)]
TokenTables(outputs) ==
    {DistinctTokenIds(outputs), <<>>, <<FromHex(TokenA)>>, <<FromHex(TokenB), FromHex(TokenA)>>}
TokenCalls ==
    UNION {{[Base EXCEPT !.driver = d, !.tx.outputs = TokenBoxes(lists),
                         !.tx.distinctTokenIds = table] :
               d \in Drivers, table \in TokenTables(TokenBoxes(lists))} :
           lists \in SeqsUpTo(TokenLists, MaxOutputs)}

\* Calls that differ in the shape of the outputs: script kind, tokens or
\* none, registers or none.
ShapeBoxes ==
    {Box(tree, tokens, registers) :
        tree \in {ChangeScript, ExternalScript},
        tokens \in {<<>>, <<Token(TokenA)>>},
        registers \in {<<>>, LongBuffer}}
ShapeCalls ==
    {[Base EXCEPT !.driver = d, !.tx.outputs = boxes, !.tx.distinctTokenIds = <<FromHex(TokenA)>>] :
        d \in Drivers, boxes \in SeqsUpTo(ShapeBoxes, MaxOutputs)}

\* Calls that differ in the length of the token-id table and of the data
\* input list: up to a full packet, a full packet and one id, two full
\* packets and one id.  The ids here are two bytes long.
TableIds(n) == [k \in 1..n |-> <<k, 200 + k>>]
LongDataInputIds(n) == [k \in 1..n |-> ToHex(<<k, 100 + k>>)]
IdListCalls ==
    {[Base EXCEPT !.driver = d, !.tx.distinctTokenIds = TableIds(nt),
                  !.tx.dataInputs = LongDataInputIds(nd)] :
        d \in Drivers, nt \in {1, MAX_PACKET_SIZE, MAX_PACKET_SIZE + 1},
        nd \in {MAX_PACKET_SIZE, 2 * MAX_PACKET_SIZE + 1}}

\* The variant in erg.ts declares the change path a string: it is never absent.
WellTyped(call) == call.driver = "erg.ts" => IsDefined(call.tx.changeMap.path)

Calls == {call \in HeaderCalls \cup InputCalls \cup ClassifyCalls \cup TokenCalls \cup ShapeCalls
                    \cup IdListCalls :
            WellTyped(call)}


\* ---------------------------------------------------------------- the state
VARIABLES
    driver,     \* which variant of the driver runs
    tx,         \* the attested transaction
    signPath,   \* the signing path
    network,    \* the network the caller signs for
    authToken,  \* the optional auth token
    pc,         \* the function of the driver that is running
    i,          \* the box the running loop is at
    j,          \* the frame the running loop is at
    c,          \* the packet or chunk the running loop is at
    sessionId,  \* the session id, once the header is answered
    log,        \* the commands sent on the channel, in order
    resps,      \* the outcomes of the commands, in order
    result,     \* the value signTx resolves to
    error,      \* the error signTx rejects with
    second,     \* a second signTx call made on the same device
    this_authToken, \* ErgoApp._authToken, once the app is constructed
    previous,   \* the token held just before the last newAuthToken call
    given,      \* the token the constructor was called with
    request,    \* the address request in progress
    answer      \* what the address request resolved to or threw

vars == <<driver, tx, signPath, network, authToken, pc, i, j, c, sessionId, log, resps, result, error,
          second, this_authToken, previous, given, request, answer>>
args == <<driver, tx, signPath, network, authToken>>

\* The ErgoApp object and its address request: untouched by a signTx run.
app == <<this_authToken, previous, given, request, answer>>
apart == <<second, app>>

\* The state of one signTx run apart from the channel.
run == <<args, pc, i, j, c, sessionId, result, error>>

\* No ErgoApp object is constructed.
NoApp ==
    /\ this_authToken = None
    /\ previous = None
    /\ given = None
    /\ request = None
    /\ answer = None

\* signTx is called: nothing is sent yet.
signTxCalled ==
    /\ \E cl \in Calls :
        /\ driver = cl.driver
        /\ tx = cl.tx
        /\ signPath = cl.signPath
        /\ network = cl.network
        /\ authToken = cl.authToken
    /\ pc = "sendHeader"
    /\ i = 1
    /\ j = 1
    /\ c = 1
    /\ sessionId = None
    /\ log = <<>>
    /\ resps = <<>>
    /\ result = None
    /\ error = "none"

Init ==
    /\ signTxCalled
    /\ second = "absent"
    /\ NoApp

\* ------------------------------------------------------------- the channel
\* Commands sent and not answered yet.
Outstanding == Len(log) - Len(resps)

\* Mutant: a send that is not awaited.
Awaited_notAwaited == TRUE

\* Every device.send and device.sendData of the driver is awaited: the next
\* statement runs once the command is answered.
Awaited == Outstanding = 0

Command(p1, p2, data) == [ins |-> "SIGN_TX", p1 |-> p1, p2 |-> p2, data |-> data]

\* device.send: the command goes out on the channel.
Send(p1, p2, data) ==
    /\ Awaited
    /\ log' = Append(log, Command(p1, p2, data))
    /\ UNCHANGED resps

\* The awaited device.send resolves with a success response carrying data.
Receive(data) ==
    /\ Outstanding > 0
    /\ second # "waiting"
    /\ resps' = Append(resps, [status |-> "ok", returnCode |-> RETURN_CODE_OK, data |-> data])
    /\ UNCHANGED log

Goto(p, ii, jj, cc) == pc' = p /\ i' = ii /\ j' = jj /\ c' = cc

\* Mutant: the outputs are streamed before the token ids and the inputs.
signTxSteps_outputsFirst ==
    <<"sendHeader", "sendStartTx", "sendOutputs", "sendDistinctTokensIds",
      "sendInputs", "sendDataInputs", "sendConfirmAndSign">>

\* The body of signTx: the functions it awaits, in order.
signTxSteps ==
    <<"sendHeader", "sendStartTx", "sendDistinctTokensIds", "sendInputs",
      "sendDataInputs", "sendOutputs", "sendConfirmAndSign">>

StepAfter(step) ==
    LET k == CHOOSE n \in 1..Len(signTxSteps) : signTxSteps[n] = step
    IN IF k < Len(signTxSteps) THEN signTxSteps[k + 1] ELSE "done"

\* Mutant: the rejection is caught and the step is run again.
OnRejection_retry(step) == step

\* What a rejected device.send does to the run: nothing catches the error.
OnRejection(step) == "failed"

\* An error thrown inside the driver, or a rejected send, ends the run.
Throw(message) ==
    /\ pc' = "failed"
    /\ error' = message
    /\ UNCHANGED <<i, j, c, sessionId, result>>


\* The session ids and the signature the device may answer with.
SessionIds == {5, 9}
Signatures == {<<170, 187, 204>>}

\* ------------------------------------------------------------- sendHeader
\* Mutant: the flag tells whether a token was passed, zero or not.
HeaderP2_defined(token) == IF IsDefined(token) THEN WITH_TOKEN ELSE WITHOUT_TOKEN

\* authToken ? P2.WITH_TOKEN : P2.WITHOUT_TOKEN
HeaderP2(token) == IF Truthy(token) THEN WITH_TOKEN ELSE WITHOUT_TOKEN

HeaderData(drv, net, path, token) ==
    (IF drv = "erg.ts" THEN uint8(net) ELSE <<>>)
        \o bip32Path(path)
        \o (IF Truthy(token) THEN uint32(Val(token)) ELSE <<>>)

sendHeader ==
    /\ pc = "sendHeader"
    /\ Send(START_SIGNING, HeaderP2(authToken), HeaderData(driver, network, signPath, authToken))
    /\ UNCHANGED <<args, apart, pc, i, j, c, sessionId, result, error>>

\* Mutant: the length of the response instead of its first byte.
SessionIdOf_length(response) == Len(response.data)

\* The session id is the first byte of the response.
SessionIdOf(response) == response.data[1]

sendHeaderDone ==
    /\ pc = "sendHeader"
    /\ \E sid \in SessionIds : Receive(<<sid>>)
    /\ sessionId' = Some(SessionIdOf(resps'[Len(resps')]))
    /\ Goto(StepAfter("sendHeader"), 1, 1, 1)
    /\ UNCHANGED <<args, apart, result, error>>

\* The scoping parameter of every command after the header.
SessionP2 == Val(sessionId)

\* ------------------------------------------------------------ sendStartTx
\* Mutant: the data-input count and the output count change places.
StartTxData_swapped(t, uniqueTokenIdsCount) ==
    uint16(Len(t.inputs)) \o uint16(Len(t.outputs))
        \o uint8(uniqueTokenIdsCount) \o uint16(Len(t.dataInputs))

StartTxData(t, uniqueTokenIdsCount) ==
    uint16(Len(t.inputs)) \o uint16(Len(t.dataInputs))
        \o uint8(uniqueTokenIdsCount) \o uint16(Len(t.outputs))

sendStartTx ==
    /\ pc = "sendStartTx"
    /\ Send(START_TRANSACTION, SessionP2, StartTxData(tx, Len(tx.distinctTokenIds)))
    /\ UNCHANGED <<args, apart, pc, i, j, c, sessionId, result, error>>

sendStartTxDone ==
    /\ pc = "sendStartTx"
    /\ Receive(<<0>>)
    /\ Goto(StepAfter("sendStartTx"), 1, 1, 1)
    /\ UNCHANGED <<args, apart, sessionId, result, error>>

\* -------------------------------------------------- sendDistinctTokensIds
\* (id) => Buffer.from(id): the bytes of the id.
\* Mutant: packets of one id more than the packet size.
TokenIdPackets_oneMore(ids) == arrayAndChunk(ids, MAX_PACKET_SIZE + 1)

TokenIdPackets(ids) == arrayAndChunk(ids, MAX_PACKET_SIZE)

sendDistinctTokensIds ==
    /\ pc = "sendDistinctTokensIds"
    /\ Len(tx.distinctTokenIds) # 0
    /\ c <= Len(TokenIdPackets(tx.distinctTokenIds))
    /\ Send(ADD_TOKEN_IDS, SessionP2, TokenIdPackets(tx.distinctTokenIds)[c])
    /\ UNCHANGED <<args, apart, pc, i, j, c, sessionId, result, error>>

sendDistinctTokensIdsDone ==
    /\ pc = "sendDistinctTokensIds"
    /\ Receive(<<>>)
    /\ Goto(pc, i, j, c + 1)
    /\ UNCHANGED <<args, apart, sessionId, result, error>>

sendDistinctTokensIdsReturn ==
    /\ pc = "sendDistinctTokensIds"
    /\ Awaited
    /\ IF Len(tx.distinctTokenIds) = 0 THEN TRUE ELSE c > Len(TokenIdPackets(tx.distinctTokenIds))
    /\ Goto(StepAfter("sendDistinctTokensIds"), 1, 1, 1)
    /\ UNCHANGED <<args, apart, sessionId, log, resps, result, error>>

\* -------------------------------------------------------------- sendInputs
\* Mutant: the frames of a box are walked from the last to the first.
FrameAt_backwards(box, k) == box.frames[Len(box.frames) + 1 - k]

\* for (let frame of box.frames): the k-th frame of the box.
FrameAt(box, k) == box.frames[k]

sendInputs ==
    /\ pc = "sendInputs"
    /\ i <= Len(tx.inputs)
    /\ j <= Len(tx.inputs[i].frames)
    /\ Send(ADD_INPUT_BOX_FRAME, SessionP2, FrameAt(tx.inputs[i], j))
    /\ UNCHANGED <<args, apart, pc, i, j, c, sessionId, result, error>>

sendInputsDone ==
    /\ pc = "sendInputs"
    /\ Receive(<<>>)
    /\ Goto(pc, i, j + 1, c)
    /\ UNCHANGED <<args, apart, sessionId, result, error>>

\* box.extension !== undefined && box.extension.length > 0
HasExtension(box) == IsDefined(box.extension) /\ Len(Val(box.extension)) > 0

\* After the frames of a box: its extension, or the next box.
sendInputsAfterFrames ==
    /\ pc = "sendInputs"
    /\ Awaited
    /\ i <= Len(tx.inputs)
    /\ j > Len(tx.inputs[i].frames)
    /\ IF HasExtension(tx.inputs[i])
       THEN Goto("sendBoxContextExtension", i, j, 1)
       ELSE Goto("sendInputs", i + 1, 1, 1)
    /\ UNCHANGED <<args, apart, sessionId, log, resps, result, error>>

sendBoxContextExtension ==
    /\ pc = "sendBoxContextExtension"
    /\ c <= Len(DataChunks(Val(tx.inputs[i].extension)))
    /\ Send(ADD_INPUT_BOX_CONTEXT_EXTENSION_CHUNK, SessionP2, DataChunks(Val(tx.inputs[i].extension))[c])
    /\ UNCHANGED <<args, apart, pc, i, j, c, sessionId, result, error>>

sendBoxContextExtensionDone ==
    /\ pc = "sendBoxContextExtension"
    /\ Receive(<<>>)
    /\ IF c < Len(DataChunks(Val(tx.inputs[i].extension)))
       THEN Goto(pc, i, j, c + 1)
       ELSE Goto("sendInputs", i + 1, 1, 1)
    /\ UNCHANGED <<args, apart, sessionId, result, error>>

sendInputsReturn ==
    /\ pc = "sendInputs"
    /\ Awaited
    /\ i > Len(tx.inputs)
    /\ Goto(StepAfter("sendInputs"), 1, 1, 1)
    /\ UNCHANGED <<args, apart, sessionId, log, resps, result, error>>

\* ---------------------------------------------------------- sendDataInputs
\* Mutant: one packet more than the ids fill, the last one empty.
DataInputPackets_oneMore(boxIds) ==
    Append(arrayAndChunk([k \in 1..Len(boxIds) |-> FromHex(boxIds[k])], MAX_PACKET_SIZE), <<>>)

\* (id) => Serialize.hex(id): the bytes of the hex id.
DataInputPackets(boxIds) ==
    arrayAndChunk([k \in 1..Len(boxIds) |-> FromHex(boxIds[k])], MAX_PACKET_SIZE)

sendDataInputs ==
    /\ pc = "sendDataInputs"
    /\ c <= Len(DataInputPackets(tx.dataInputs))
    /\ Send(ADD_DATA_INPUTS, SessionP2, DataInputPackets(tx.dataInputs)[c])
    /\ UNCHANGED <<args, apart, pc, i, j, c, sessionId, result, error>>

sendDataInputsDone ==
    /\ pc = "sendDataInputs"
    /\ Receive(<<>>)
    /\ Goto(pc, i, j, c + 1)
    /\ UNCHANGED <<args, apart, sessionId, result, error>>

sendDataInputsReturn ==
    /\ pc = "sendDataInputs"
    /\ Awaited
    /\ c > Len(DataInputPackets(tx.dataInputs))
    /\ Goto(StepAfter("sendDataInputs"), 1, 1, 1)
    /\ UNCHANGED <<args, apart, sessionId, log, resps, result, error>>


\* ------------------------------------------------------------- sendOutputs
OutputStartData(box) ==
    uint64(box.value) \o uint32(Len(box.ergoTree)) \o uint32(box.creationHeight)
        \o uint8(Len(box.tokens)) \o uint32(Len(box.registers))

\* The fee-script test of each variant, on the hex string of the script.
IsMinersFeeTree(drv, tree) ==
    IF drv = "signTx.ts"
    THEN tree = MAINNET_MINER_FEE_TREE \/ tree = TESTNET_FEE_TREE
    ELSE tree = MINER_FEE_TREE

\* Mutant: the change test comes before the fee test.
TreeStep_changeFirst(drv, box, changeMap) ==
    LET tree == ToHex(box.ergoTree)
    IN IF AddressOf(tree) = changeMap.address THEN "addOutputBoxChangeTree"
       ELSE IF IsMinersFeeTree(drv, tree) THEN "addOutputBoxMinersFeeTree"
       ELSE "addOutputBoxErgoTree"

\* The if / else if / else on the script of a box: which tree step runs.
TreeStep(drv, box, changeMap) ==
    LET tree == ToHex(box.ergoTree)
    IN IF IsMinersFeeTree(drv, tree) THEN "addOutputBoxMinersFeeTree"
       ELSE IF AddressOf(tree) = changeMap.address THEN "addOutputBoxChangeTree"
       ELSE "addOutputBoxErgoTree"

\* After the registers of a box, or when it has none: the next box.
NextBox == Goto("sendOutputs", i + 1, 1, 1)

\* Mutant: the registers of a box are never sent.
AfterTokens_noRegisters(box) == NextBox

\* After the tokens of a box, or when it has none.
AfterTokens(box) ==
    IF Len(box.registers) > 0 THEN Goto("addOutputBoxRegisters", i, 1, 1) ELSE NextBox

\* After the tree step of a box.
AfterTree(box) ==
    IF Len(box.tokens) > 0 THEN Goto("addOutputBoxTokens", i, 1, 1) ELSE AfterTokens(box)

sendOutputs ==
    /\ pc = "sendOutputs"
    /\ i <= Len(tx.outputs)
    /\ Send(ADD_OUTPUT_BOX_START, SessionP2, OutputStartData(tx.outputs[i]))
    /\ UNCHANGED <<args, apart, pc, i, j, c, sessionId, result, error>>

sendOutputsDone ==
    /\ pc = "sendOutputs"
    /\ Receive(<<>>)
    /\ Goto(TreeStep(driver, tx.outputs[i], tx.changeMap), i, 1, 1)
    /\ UNCHANGED <<args, apart, sessionId, result, error>>

sendOutputsReturn ==
    /\ pc = "sendOutputs"
    /\ Awaited
    /\ i > Len(tx.outputs)
    /\ Goto(StepAfter("sendOutputs"), 1, 1, 1)
    /\ UNCHANGED <<args, apart, sessionId, log, resps, result, error>>

\* The payload of the fee-tree step: the network tag in signTx.ts, nothing in erg.ts.
MinersFeeTreeData(drv, net) == IF drv = "signTx.ts" THEN <<net>> ELSE <<>>

addOutputBoxMinersFeeTree ==
    /\ pc = "addOutputBoxMinersFeeTree"
    /\ Send(ADD_OUTPUT_BOX_MINERS_FEE_TREE, SessionP2, MinersFeeTreeData(driver, network))
    /\ UNCHANGED <<args, apart, pc, i, j, c, sessionId, result, error>>

addOutputBoxMinersFeeTreeDone ==
    /\ pc = "addOutputBoxMinersFeeTree"
    /\ Receive(<<>>)
    /\ AfterTree(tx.outputs[i])
    /\ UNCHANGED <<args, apart, sessionId, result, error>>

\* if (!path) throw, in signTx.ts only.
ChangePathMissing(drv, path) == drv = "signTx.ts" /\ ~IsDefined(path)

\* Mutant: the script of the box is sent instead of the path.
ChangeTreeData_script(box, path) == box.ergoTree

\* The payload of the change-tree step: the encoded change path.
ChangeTreeData(box, path) == bip32Path(Val(path))

addOutputBoxChangeTreeThrow ==
    /\ pc = "addOutputBoxChangeTree"
    /\ Awaited
    /\ ChangePathMissing(driver, tx.changeMap.path)
    /\ Throw("change path is not present")
    /\ UNCHANGED <<args, apart, log, resps>>

addOutputBoxChangeTree ==
    /\ pc = "addOutputBoxChangeTree"
    /\ ~ChangePathMissing(driver, tx.changeMap.path)
    /\ Send(ADD_OUTPUT_BOX_CHANGE_TREE, SessionP2, ChangeTreeData(tx.outputs[i], tx.changeMap.path))
    /\ UNCHANGED <<args, apart, pc, i, j, c, sessionId, result, error>>

addOutputBoxChangeTreeDone ==
    /\ pc = "addOutputBoxChangeTree"
    /\ Receive(<<>>)
    /\ AfterTree(tx.outputs[i])
    /\ UNCHANGED <<args, apart, sessionId, result, error>>

addOutputBoxErgoTree ==
    /\ pc = "addOutputBoxErgoTree"
    /\ c <= Len(DataChunks(tx.outputs[i].ergoTree))
    /\ Send(ADD_OUTPUT_BOX_ERGO_TREE_CHUNK, SessionP2, DataChunks(tx.outputs[i].ergoTree)[c])
    /\ UNCHANGED <<args, apart, pc, i, j, c, sessionId, result, error>>

addOutputBoxErgoTreeDone ==
    /\ pc = "addOutputBoxErgoTree"
    /\ Receive(<<>>)
    /\ IF c < Len(DataChunks(tx.outputs[i].ergoTree))
       THEN Goto(pc, i, j, c + 1)
       ELSE AfterTree(tx.outputs[i])
    /\ UNCHANGED <<args, apart, sessionId, result, error>>

\* distinctTokenIds.map((t) => Buffer.from(t).toString("hex"))
DistinctTokenIdsStr(ids) == [k \in 1..Len(ids) |-> ToHex(ids[k])]

\* distinctTokenIds.indexOf(t.id) for every token of a box.
TokenIndexes(tokens, idsStr) == [k \in 1..Len(tokens) |-> IndexOf(idsStr, tokens[k].id)]

\* Serialize.array over the tokens: index as uint32, amount as uint64.
TokensData(tokens, idsStr) ==
    SerializeArray([k \in 1..Len(tokens) |->
        uint32(TokenIndexes(tokens, idsStr)[k]) \o uint64(tokens[k].amount)])

\* Some token of the box is not in the table: its index cannot be serialized.
TokenNotFound(tokens, idsStr) ==
    \E k \in 1..Len(tokens) : ~IsUint(TokenIndexes(tokens, idsStr)[k])

addOutputBoxTokensThrow ==
    /\ pc = "addOutputBoxTokens"
    /\ Awaited
    /\ TokenNotFound(tx.outputs[i].tokens, DistinctTokenIdsStr(tx.distinctTokenIds))
    /\ Throw("token not found")
    /\ UNCHANGED <<args, apart, log, resps>>

addOutputBoxTokens ==
    /\ pc = "addOutputBoxTokens"
    /\ ~TokenNotFound(tx.outputs[i].tokens, DistinctTokenIdsStr(tx.distinctTokenIds))
    /\ Send(ADD_OUTPUT_BOX_TOKENS, SessionP2,
            TokensData(tx.outputs[i].tokens, DistinctTokenIdsStr(tx.distinctTokenIds)))
    /\ UNCHANGED <<args, apart, pc, i, j, c, sessionId, result, error>>

addOutputBoxTokensDone ==
    /\ pc = "addOutputBoxTokens"
    /\ Receive(<<>>)
    /\ AfterTokens(tx.outputs[i])
    /\ UNCHANGED <<args, apart, sessionId, result, error>>

addOutputBoxRegisters ==
    /\ pc = "addOutputBoxRegisters"
    /\ c <= Len(DataChunks(tx.outputs[i].registers))
    /\ Send(ADD_OUTPUT_BOX_REGISTERS_CHUNK, SessionP2, DataChunks(tx.outputs[i].registers)[c])
    /\ UNCHANGED <<args, apart, pc, i, j, c, sessionId, result, error>>

addOutputBoxRegistersDone ==
    /\ pc = "addOutputBoxRegisters"
    /\ Receive(<<>>)
    /\ IF c < Len(DataChunks(tx.outputs[i].registers))
       THEN Goto(pc, i, j, c + 1)
       ELSE NextBox
    /\ UNCHANGED <<args, apart, sessionId, result, error>>

\* ------------------------------------------------------ sendConfirmAndSign
sendConfirmAndSign ==
    /\ pc = "sendConfirmAndSign"
    /\ Send(CONFIRM_AND_SIGN, SessionP2, <<>>)
    /\ UNCHANGED <<args, apart, pc, i, j, c, sessionId, result, error>>

\* Mutant: the signature loses its first byte.
SignBytesOf_tail(response) == Tail(response.data)

\* sendConfirmAndSign returns the data of the response.
SignBytesOf(response) == response.data

\* signTx returns the data of the last response.
sendConfirmAndSignDone ==
    /\ pc = "sendConfirmAndSign"
    /\ \E sig \in Signatures : Receive(sig)
    /\ result' = Some(SignBytesOf(resps'[Len(resps')]))
    /\ Goto(StepAfter("sendConfirmAndSign"), 1, 1, 1)
    /\ UNCHANGED <<args, apart, sessionId, error>>

\* ---------------------------------------------------- a command that fails
\* The device answers the outstanding command with a status other than
\* success, or the channel fails: device.send rejects, and so does signTx.
DeviceReject ==
    /\ pc \notin {"done", "failed"}
    /\ Outstanding > 0
    /\ second # "waiting"
    /\ \E st \in {"rejected", "channel"} :
        /\ resps' = Append(resps, [status |-> st,
                                   returnCode |-> IF st = "rejected" THEN RETURN_CODE_DENIED ELSE 0,
                                   data |-> <<>>])
        /\ error' = st
    /\ pc' = OnRejection(pc)
    /\ UNCHANGED <<args, apart, i, j, c, sessionId, log, result>>

Next ==
    \/ sendHeader
    \/ sendHeaderDone
    \/ sendStartTx
    \/ sendStartTxDone
    \/ sendDistinctTokensIds
    \/ sendDistinctTokensIdsDone
    \/ sendDistinctTokensIdsReturn
    \/ sendInputs
    \/ sendInputsDone
    \/ sendInputsAfterFrames
    \/ sendBoxContextExtension
    \/ sendBoxContextExtensionDone
    \/ sendInputsReturn
    \/ sendDataInputs
    \/ sendDataInputsDone
    \/ sendDataInputsReturn
    \/ sendOutputs
    \/ sendOutputsDone
    \/ sendOutputsReturn
    \/ addOutputBoxMinersFeeTree
    \/ addOutputBoxMinersFeeTreeDone
    \/ addOutputBoxChangeTreeThrow
    \/ addOutputBoxChangeTree
    \/ addOutputBoxChangeTreeDone
    \/ addOutputBoxErgoTree
    \/ addOutputBoxErgoTreeDone
    \/ addOutputBoxTokensThrow
    \/ addOutputBoxTokens
    \/ addOutputBoxTokensDone
    \/ addOutputBoxRegisters
    \/ addOutputBoxRegistersDone
    \/ sendConfirmAndSign
    \/ sendConfirmAndSignDone
    \/ DeviceReject

Spec == Init /\ [][Next]_vars

\* ------------------------------------------- two signTx calls, one device
\* signTx takes no lock and is not among the methods the constructor of
\* ErgoApp hands to decorateAppAPIMethods: a caller may call it again on the
\* same device while a run is between two of its commands.  The second call
\* is followed up to the answer to its start-signing command.
SecondCall == [signPath |-> SignPath, authToken |-> None]

secondSendHeader ==
    /\ second = "called"
    /\ Len(log) > 0
    /\ Send(START_SIGNING, HeaderP2(SecondCall.authToken),
            HeaderData(driver, network, SecondCall.signPath, SecondCall.authToken))
    /\ second' = "waiting"
    /\ UNCHANGED <<run, app>>

secondSendHeaderDone ==
    /\ second = "waiting"
    /\ Outstanding > 0
    /\ \E sid \in SessionIds :
        resps' = Append(resps, [status |-> "ok", returnCode |-> RETURN_CODE_OK, data |-> <<sid>>])
    /\ second' = "answered"
    /\ UNCHANGED <<run, app, log>>

InitTwoCalls ==
    /\ signTxCalled
    /\ second = "called"
    /\ NoApp

NextTwoCalls ==
    \/ Next
    \/ secondSendHeader
    \/ secondSendHeaderDone

SpecTwoCalls == InitTwoCalls /\ [][NextTwoCalls]_vars


\* ------------------------------------------------------------- the ErgoApp
\* 0xffffffff, the largest token, scaled down.
TokenSpan == 5
\* The number of commands the address requests may put on the channel.
MaxRequests == 1

\* Math.floor(Math.random() * 0xffffffff) + 1, Math.random() being in [0, 1).
RandomTokens == {k + 1 : k \in 0..(TokenSpan - 1)}

\* Mutant: the loop never draws again.
LoopAgain_never(newToken, held) == FALSE

\* The condition of the do-while loop of newAuthToken.
LoopAgain(newToken, held) == newToken = held

\* The body of newAuthToken: the loop ends with the first draw that does not
\* repeat the token held, and that draw becomes the token.
DrawAuthToken(held) ==
    \E newToken \in RandomTokens :
        /\ ~LoopAgain(newToken, held)
        /\ this_authToken' = Some(newToken)
        /\ previous' = Some(held)

\* The tokens a caller constructs the app with: 0, also the default of the
\* parameter, or a non-zero 32-bit value.
CtorTokens == 0..TokenSpan

constructor ==
    /\ this_authToken = None
    /\ \E tok \in CtorTokens :
        /\ given' = Some(tok)
        /\ IF tok = 0
           THEN DrawAuthToken(tok)
           ELSE this_authToken' = Some(tok) /\ previous' = None
    /\ UNCHANGED <<run, second, log, resps, request, answer>>

\* newAuthToken is private and the constructor is its only caller in this
\* file; the action runs it on a constructed app as well, as any method of
\* the class may.
newAuthToken ==
    /\ IsDefined(this_authToken)
    /\ DrawAuthToken(Val(this_authToken))
    /\ UNCHANGED <<run, second, log, resps, given, request, answer>>

getAuthToken(useAuthToken) == IF useAuthToken THEN this_authToken ELSE None

\* ------------------------------------------------ deriveAddress, showAddress
RETURN == 1
DISPLAY == 2
CHANGE_PATH_INDEX == 3
ALLOWED_CHANGE_PATHS == <<0, 1>>

\* Mutant: every change component is allowed.
IsAllowedChange_any(comp) == TRUE

\* ALLOWED_CHANGE_PATHS.includes(change): the value of a hardened component
\* has the top bit set and is none of the allowed values.
IsAllowedChange(comp) ==
    /\ ~comp.h
    /\ \E k \in 1..Len(ALLOWED_CHANGE_PATHS) : ALLOWED_CHANGE_PATHS[k] = comp.n

\* pathArray[CHANGE_PATH_INDEX] in [0, 1]: the in operator of JavaScript
\* tests whether the value is an index of the array literal.
InIndexes(comp, array) == ~comp.h /\ comp.n \in 0..(Len(array) - 1)

\* The error getDerivationPathArray throws for a path, "none" when it
\* returns.  The paths here are Ergo paths: isValidErgoPath holds of them.
getDerivationPathArray(path) ==
    IF Len(path) < 5 THEN "Invalid path lenght."
    ELSE IF ~InIndexes(path[CHANGE_PATH_INDEX + 1], <<0, 1>>) THEN "Invalid change path value."
    ELSE "none"

\* The error sendDeriveAddress throws for a path, "none" when it sends.
sendDeriveAddressError(path) ==
    IF Len(path) < 5 THEN "Invalid path length."
    ELSE IF ~IsAllowedChange(path[CHANGE_PATH_INDEX + 1]) THEN "Invalid change path"
    ELSE "none"

DeriveP1(method) == IF method = "deriveAddress" THEN RETURN ELSE DISPLAY

DeriveData(net, path, token) ==
    uint8(net) \o bip32Path(path) \o (IF Truthy(token) THEN uint32(Val(token)) ELSE <<>>)

DeriveCommand(method, net, path, token) ==
    [ins |-> "DERIVE_ADDRESS", p1 |-> DeriveP1(method), p2 |-> HeaderP2(token),
     data |-> DeriveData(net, path, token)]

\* Paths of 4, 5 and 6 components, with change component 0, 1, 2 and 0'.
DerivePaths ==
    {SignPath, Append(ChangePath, Plain(7)), SubSeq(ChangePath, 1, 4),
     [SignPath EXCEPT ![4] = Plain(2)], [SignPath EXCEPT ![4] = Hardened(0)]}

\* The network the addresses are asked for.
RequestNetworks == {Testnet}

Thrown(message) == [kind |-> "thrown", value |-> message]
Returned(value) == [kind |-> "returned", value |-> value]

\* The tokens a request carries: what getAuthToken yields for the caller's
\* useAuthToken when the method of ErgoApp is called, any optional number
\* when the interaction is.
RequestTokens(via) ==
    IF via = "ErgoApp"
    THEN {[useAuthToken |-> Some(use), authToken |-> getAuthToken(use)] : use \in BOOLEAN}
    ELSE {[useAuthToken |-> None, authToken |-> token] : token \in {None, Some(0), Some(TokenSpan)}}

\* The call of deriveAddress or showAddress up to its await: the errors thrown
\* on the path, or the one command sent.
AddressRequest(method) ==
    /\ IsDefined(this_authToken)
    /\ Awaited
    /\ IF IsDefined(request) THEN Val(request).state = "settled" ELSE TRUE
    /\ Len(log) < MaxRequests
    /\ \E via \in {"ErgoApp", "interaction"}, net \in RequestNetworks, path \in DerivePaths :
        \E passed \in RequestTokens(via) :
            LET token == passed.authToken
                err == IF via = "ErgoApp" /\ getDerivationPathArray(path) # "none"
                       THEN getDerivationPathArray(path)
                       ELSE sendDeriveAddressError(path)
                req == [method |-> method, via |-> via, network |-> net, path |-> path,
                        useAuthToken |-> passed.useAuthToken, authToken |-> token,
                        sentBefore |-> Len(log)]
            IN IF err # "none"
               THEN /\ request' = Some([state |-> "settled"] @@ req)
                    /\ answer' = Some(Thrown(err))
                    /\ UNCHANGED log
               ELSE /\ request' = Some([state |-> "waiting"] @@ req)
                    /\ answer' = None
                    /\ log' = Append(log, DeriveCommand(method, net, path, token))
    /\ UNCHANGED <<run, second, resps, this_authToken, previous, given>>

deriveAddress == AddressRequest("deriveAddress")
showAddress == AddressRequest("showAddress")

AddressData == {<<1, 171>>}

Waiting(method) ==
    /\ IsDefined(request)
    /\ Val(request).state = "waiting"
    /\ Val(request).method = method

Settle(value) ==
    /\ request' = Some([Val(request) EXCEPT !.state = "settled"])
    /\ answer' = Some(value)
    /\ UNCHANGED <<run, second, log, this_authToken, previous, given>>

\* deriveAddress resolves to the address in hex.
deriveAddressDone ==
    /\ Waiting("deriveAddress")
    /\ \E data \in AddressData : Receive(data)
    /\ Settle(Returned([addressHex |-> ToHex(resps'[Len(resps')].data)]))

\* showAddress resolves to whether the return code is OK.
showAddressDone ==
    /\ Waiting("showAddress")
    /\ Receive(<<>>)
    /\ Settle(Returned(resps'[Len(resps')].returnCode = RETURN_CODE_OK))

\* The device refuses the request: device.send rejects.
AddressReject ==
    /\ IsDefined(request)
    /\ Val(request).state = "waiting"
    /\ resps' = Append(resps, [status |-> "rejected", returnCode |-> RETURN_CODE_DENIED,
                               data |-> <<>>])
    /\ Settle(Thrown("rejected"))

\* No signTx run: the app is not constructed yet, the channel is silent.
InitApp ==
    /\ driver = Base.driver
    /\ tx = Base.tx
    /\ signPath = Base.signPath
    /\ network = Base.network
    /\ authToken = Base.authToken
    /\ pc = "idle"
    /\ i = 1
    /\ j = 1
    /\ c = 1
    /\ sessionId = None
    /\ log = <<>>
    /\ resps = <<>>
    /\ result = None
    /\ error = "none"
    /\ second = "absent"
    /\ NoApp

\* The token of the app alone: its construction and the calls of newAuthToken.
NextToken ==
    \/ constructor
    \/ newAuthToken

SpecToken == InitApp /\ [][NextToken]_vars

\* The app and its address requests.
NextApp ==
    \/ constructor
    \/ deriveAddress
    \/ showAddress
    \/ deriveAddressDone
    \/ showAddressDone
    \/ AddressReject

SpecApp == InitApp /\ [][NextApp]_vars


\* ================================================================ the claims
\* ------------------------------------------------------ reading the channel
P1s == [k \in 1..Len(log) |-> log[k].p1]

OutputP1s ==
    {ADD_OUTPUT_BOX_START, ADD_OUTPUT_BOX_ERGO_TREE_CHUNK, ADD_OUTPUT_BOX_MINERS_FEE_TREE,
     ADD_OUTPUT_BOX_CHANGE_TREE, ADD_OUTPUT_BOX_TOKENS, ADD_OUTPUT_BOX_REGISTERS_CHUNK}
TreeP1s ==
    {ADD_OUTPUT_BOX_ERGO_TREE_CHUNK, ADD_OUTPUT_BOX_MINERS_FEE_TREE, ADD_OUTPUT_BOX_CHANGE_TREE}

\* The step of the protocol table a command belongs to, 0 for an unknown one.
Phase(p1) ==
    CASE p1 = START_SIGNING -> 1
      [] p1 = START_TRANSACTION -> 2
      [] p1 = ADD_TOKEN_IDS -> 3
      [] p1 \in {ADD_INPUT_BOX_FRAME, ADD_INPUT_BOX_CONTEXT_EXTENSION_CHUNK} -> 4
      [] p1 = ADD_DATA_INPUTS -> 5
      [] p1 \in OutputP1s -> 6
      [] p1 = CONFIRM_AND_SIGN -> 7
      [] OTHER -> 0

Positions(p1) == {k \in 1..Len(log) : log[k].p1 = p1}

\* The commands of the n-th output: those after the n-th add-output-start, up
\* to the next add-output-start or the confirm-and-sign.
StartPositions == Positions(ADD_OUTPUT_BOX_START)
NumStarted == Cardinality(StartPositions)
StartPos(n) == CHOOSE k \in StartPositions : Cardinality({m \in StartPositions : m < k}) = n - 1
BlockEnd(n) ==
    IF n < NumStarted THEN StartPos(n + 1) - 1
    ELSE IF Positions(CONFIRM_AND_SIGN) # {} THEN (CHOOSE k \in Positions(CONFIRM_AND_SIGN) : TRUE) - 1
    ELSE Len(log)
BlockP1s(n) == SubSeq(P1s, StartPos(n) + 1, BlockEnd(n))
BlockCmds(n) == SubSeq(log, StartPos(n) + 1, BlockEnd(n))
TreeCmds(n) == SelectSeq(BlockCmds(n), LAMBDA cmd : cmd.p1 \in TreeP1s)

\* The n-th output is complete on the channel: a later output was started, or
\* the run is past the outputs.
BlockComplete(n) == n < NumStarted \/ pc \in {"sendConfirmAndSign", "done"}

\* Decoding a big-endian unsigned integer.
RECURSIVE DecodeUint(_)
DecodeUint(bytes) ==
    IF bytes = <<>> THEN 0
    ELSE 256 * DecodeUint(SubSeq(bytes, 1, Len(bytes) - 1)) + bytes[Len(bytes)]

\* C1: the commands of a run go out in the order of the protocol table: one
\* start-signing first, one start-transaction second, then the token ids, the
\* inputs, the data inputs, the outputs, and one confirm-and-sign last; so
\* every add-token-ids precedes every add-output-tokens.
C1_CommandOrder ==
    /\ \A k \in 1..Len(log) :
        /\ Phase(log[k].p1) # 0
        /\ Phase(log[k].p1) = 1 <=> k = 1
        /\ Phase(log[k].p1) = 2 <=> k = 2
        /\ Phase(log[k].p1) = 7 => k = Len(log)
        /\ k < Len(log) => Phase(log[k].p1) <= Phase(log[k + 1].p1)
    /\ \A a \in Positions(ADD_TOKEN_IDS), b \in Positions(ADD_OUTPUT_BOX_TOKENS) : a < b
    /\ pc = "done" => Len(log) >= 3 /\ log[Len(log)].p1 = CONFIRM_AND_SIGN

C1_Witness ==
    /\ pc = "done"
    /\ Positions(ADD_TOKEN_IDS) # {}
    /\ Positions(ADD_OUTPUT_BOX_TOKENS) # {}
    /\ Positions(ADD_INPUT_BOX_FRAME) # {}

\* C2: a command answered with a failure is the last command of the run: no
\* command follows it, it is not sent again, and the run ends with the error
\* of that failure and without a signature.
C2_AbortOnFailure ==
    \A k \in 1..Len(resps) :
        resps[k].status # "ok" =>
            /\ k = Len(resps)
            /\ k = Len(log)
            /\ pc = "failed"
            /\ error = resps[k].status
            /\ result = None

C2_Witness ==
    /\ Len(resps) >= 5
    /\ resps[Len(resps)].status = "rejected"
    /\ log[Len(log)].p1 = ADD_INPUT_BOX_FRAME
    /\ pc = "failed"

\* C3: every command after start-signing carries, as p2, the first byte of the
\* start-signing response.
C3_SessionIdCarried ==
    \A k \in 2..Len(log) : Len(resps) >= 1 /\ log[k].p2 = resps[1].data[1]

C3_Witness ==
    /\ pc = "done"
    /\ resps[1].data[1] = 9
    /\ \E k \in 1..(Len(log) - 1) :
        /\ log[k].p1 = ADD_OUTPUT_BOX_REGISTERS_CHUNK
        /\ log[k + 1].p1 = ADD_OUTPUT_BOX_REGISTERS_CHUNK

\* The script of the n-th output is the fee script constant of the driver.
IsFeeOutput(n) ==
    LET tree == ToHex(tx.outputs[n].ergoTree)
    IN \/ tree = MINER_FEE_TREE
       \/ (driver = "signTx.ts" /\ tree \in {MAINNET_MINER_FEE_TREE, TESTNET_FEE_TREE})

\* The address derived from the script of the n-th output is the change address.
IsChangeAddress(n) == AddressOf(ToHex(tx.outputs[n].ergoTree)) = tx.changeMap.address

\* C4: the tree step of an output whose script is the fee script is one
\* add-output-fee-tree command that carries no script bytes (nothing, or the
\* network tag), also when the script derives to the change address.
C4_FeeTreeNoScript ==
    \A n \in 1..NumStarted :
        (IsFeeOutput(n) /\ BlockCmds(n) # <<>>) =>
            /\ BlockCmds(n)[1].p1 = ADD_OUTPUT_BOX_MINERS_FEE_TREE
            /\ BlockCmds(n)[1].data \in {<<>>, <<network>>}
            /\ Len(TreeCmds(n)) = 1

C4_Witness ==
    /\ pc = "done"
    /\ \E n \in 1..NumStarted :
        /\ IsFeeOutput(n)
        /\ IsChangeAddress(n)
        /\ IsDefined(tx.changeMap.path)
        /\ BlockCmds(n)[1].p1 = ADD_OUTPUT_BOX_MINERS_FEE_TREE

\* Decoding an encoded path: the length byte, then 32-bit components with the
\* top bit for hardening.
DecodePath(data) ==
    [m \in 1..data[1] |->
        [h |-> data[4 * m - 2] >= 128,
         n |-> DecodeUint(<<data[4 * m - 2] % 128, data[4 * m - 1], data[4 * m], data[4 * m + 1]>>)]]

\* C5: the tree step of an output that derives to the change address, and whose
\* script is not the fee script, is one add-output-change-tree command whose
\* payload is the encoded change path; no script bytes are sent for it.
C5_ChangeTreeIsPath ==
    \A n \in 1..NumStarted :
        (~IsFeeOutput(n) /\ IsChangeAddress(n) /\ BlockCmds(n) # <<>>) =>
            /\ BlockCmds(n)[1].p1 = ADD_OUTPUT_BOX_CHANGE_TREE
            /\ Len(BlockCmds(n)[1].data) = 1 + 4 * Len(Val(tx.changeMap.path))
            /\ DecodePath(BlockCmds(n)[1].data) = Val(tx.changeMap.path)
            /\ Len(TreeCmds(n)) = 1

C5_Witness ==
    /\ pc = "done"
    /\ \E n \in 1..NumStarted :
        /\ ~IsFeeOutput(n)
        /\ IsChangeAddress(n)
        /\ BlockCmds(n)[1].p1 = ADD_OUTPUT_BOX_CHANGE_TREE


\* The number of leading tree-step commands of the n-th output.
Count(seq, S) == Cardinality({k \in 1..Len(seq) : seq[k] \in S})

\* C6: the n-th add-output-start is that of the n-th output of the list; a
\* complete output is, after its add-output-start, tree commands of one kind
\* (one command when fee or change), then one add-output-tokens exactly when
\* it has tokens, then register chunks exactly when it has registers, and
\* nothing else; an output in progress is a prefix of that.
C6_OutputShape ==
    /\ NumStarted <= Len(tx.outputs)
    /\ \A n \in 1..NumStarted :
        LET box == tx.outputs[n]
            blk == BlockP1s(n)
            t == Count(blk, TreeP1s)
            q == Count(blk, {ADD_OUTPUT_BOX_TOKENS})
            r == Count(blk, {ADD_OUTPUT_BOX_REGISTERS_CHUNK})
        IN /\ log[StartPos(n)].data = OutputStartData(box)
           /\ t + q + r = Len(blk)
           /\ \A k \in 1..Len(blk) :
                /\ k <= t => blk[k] \in TreeP1s /\ blk[k] = blk[1]
                /\ (k > t /\ k <= t + q) => blk[k] = ADD_OUTPUT_BOX_TOKENS
                /\ k > t + q => blk[k] = ADD_OUTPUT_BOX_REGISTERS_CHUNK
           /\ t > 1 => blk[1] = ADD_OUTPUT_BOX_ERGO_TREE_CHUNK
           /\ q <= 1
           /\ q = 1 => Len(box.tokens) > 0
           /\ r > 0 => Len(box.registers) > 0
           /\ BlockComplete(n) =>
                /\ t >= 1
                /\ q = 1 <=> Len(box.tokens) > 0
                /\ r > 0 <=> Len(box.registers) > 0

C6_Witness ==
    /\ pc = "done"
    /\ NumStarted = 2
    /\ BlockP1s(1) = <<ADD_OUTPUT_BOX_ERGO_TREE_CHUNK, ADD_OUTPUT_BOX_ERGO_TREE_CHUNK,
                       ADD_OUTPUT_BOX_TOKENS,
                       ADD_OUTPUT_BOX_REGISTERS_CHUNK, ADD_OUTPUT_BOX_REGISTERS_CHUNK>>
    /\ BlockP1s(2) = <<ADD_OUTPUT_BOX_CHANGE_TREE>>

\* The table passed to signTx is the distinct-token-id table of its outputs.
TableBuilt == tx.distinctTokenIds = DistinctTokenIds(tx.outputs)

\* The position of a token id in the table, -1 when the id is not in it.
PositionInTable(id) == IndexOf(tx.distinctTokenIds, FromHex(id))

\* The indexes carried by an add-output-tokens payload: 12 bytes per token,
\* the index in the first four.
SentIndexes(data) ==
    [m \in 1..(Len(data) \div 12) |-> DecodeUint(SubSeq(data, 12 * m - 11, 12 * m - 8))]

\* C7: with the table built from the outputs, looking up a referenced id never
\* fails, and every index sent in add-output-tokens is the position of the
\* token's id in the table, within the table.
C7_TokenIndexInTable ==
    TableBuilt =>
        /\ error # "token not found"
        /\ \A n \in 1..NumStarted :
            \A k \in 1..Len(BlockCmds(n)) :
                BlockCmds(n)[k].p1 = ADD_OUTPUT_BOX_TOKENS =>
                    LET sent == SentIndexes(BlockCmds(n)[k].data)
                    IN /\ Len(sent) = Len(tx.outputs[n].tokens)
                       /\ \A m \in 1..Len(sent) :
                            /\ sent[m] = PositionInTable(tx.outputs[n].tokens[m].id)
                            /\ sent[m] >= 0
                            /\ sent[m] < Len(tx.distinctTokenIds)

\* Some output references a token id that the table does not hold.
AbsentTokenRef ==
    \E n \in 1..Len(tx.outputs) :
        \E m \in 1..Len(tx.outputs[n].tokens) : PositionInTable(tx.outputs[n].tokens[m].id) = -1

\* C8: when an output references a token id absent from the table, signTx
\* fails before any command is sent: at the failure of the lookup no command
\* has been put on the channel.
C8_AbsentTokenFailsBeforeTraffic ==
    (AbsentTokenRef /\ error = "token not found") => log = <<>>

\* Some output is a change output and the change descriptor has no path.
ChangeWithoutPath ==
    /\ ~IsDefined(tx.changeMap.path)
    /\ \E n \in 1..Len(tx.outputs) : ~IsFeeOutput(n) /\ IsChangeAddress(n)

\* C9: when a change output is detected and the change descriptor has no
\* path, signTx fails before any command is sent: at the report of the missing
\* path no command has been put on the channel.
C9_MissingPathFailsBeforeTraffic ==
    (ChangeWithoutPath /\ error = "change path is not present") => log = <<>>

\* C10: at most one command is outstanding on the channel at any moment.
C10_OneOutstanding == Len(log) - Len(resps) \in {0, 1}

C10_Witness ==
    /\ Len(log) - Len(resps) = 1
    /\ Len(resps) >= 3
    /\ log[Len(log)].p1 = ADD_INPUT_BOX_FRAME
    /\ log[Len(log) - 1].p1 = ADD_INPUT_BOX_FRAME


\* C11: on one channel no second signing session is started while a session
\* is active: as long as the run has neither completed nor failed, the only
\* start-signing command on the channel is the first command of the run.
C11_NoSecondSession ==
    pc \notin {"done", "failed"}
        => \A k \in 2..Len(log) : log[k].p1 # START_SIGNING

\* The scenario of C12: one input of two frames without extension, one
\* external output without tokens or registers, no token ids, no data inputs.
IsExternal(box) == TreeStep(driver, box, tx.changeMap) = "addOutputBoxErgoTree"
C12_Scenario ==
    /\ Len(tx.inputs) = 1
    /\ Len(tx.inputs[1].frames) = 2
    /\ ~HasExtension(tx.inputs[1])
    /\ Len(tx.outputs) = 1
    /\ IsExternal(tx.outputs[1])
    /\ tx.outputs[1].tokens = <<>>
    /\ tx.outputs[1].registers = <<>>
    /\ tx.distinctTokenIds = <<>>
    /\ tx.dataInputs = <<>>

NumSent(p1) == Cardinality(Positions(p1))

\* C12: a completed run of the scenario sent exactly 1 start-signing, 1
\* start-transaction, 0 add-token-ids, 2 add-input-frame, 0 add-data-inputs,
\* 1 add-output-start, 1 or more ergo-tree chunks, 1 confirm-and-sign and
\* nothing else; and every completed run returns exactly the data of the
\* response to its confirm-and-sign, the last command of the run.
C12_ScenarioCommands ==
    pc = "done" =>
        /\ log[Len(log)].p1 = CONFIRM_AND_SIGN
        /\ Len(resps) = Len(log)
        /\ result = Some(resps[Len(resps)].data)
        /\ C12_Scenario =>
            /\ NumSent(START_SIGNING) = 1
            /\ NumSent(START_TRANSACTION) = 1
            /\ NumSent(ADD_TOKEN_IDS) = 0
            /\ NumSent(ADD_INPUT_BOX_FRAME) = 2
            /\ NumSent(ADD_DATA_INPUTS) = 0
            /\ NumSent(ADD_OUTPUT_BOX_START) = 1
            /\ NumSent(ADD_OUTPUT_BOX_ERGO_TREE_CHUNK) >= 1
            /\ NumSent(CONFIRM_AND_SIGN) = 1
            /\ Len(log) = 6 + NumSent(ADD_OUTPUT_BOX_ERGO_TREE_CHUNK)

C12_Witness ==
    /\ pc = "done"
    /\ C12_Scenario
    /\ Len(log) = 8
    /\ result = Some(<<170, 187, 204>>)

\* C13: with an empty distinct-token-id list no add-token-ids command is
\* sent, with an empty data-input list no add-data-inputs command, and for an
\* output with empty registers no register chunk; the completed run still
\* has its start-signing, start-transaction, one add-output-start per output
\* and its confirm-and-sign.
C13_EmptyListsSendNothing ==
    /\ tx.distinctTokenIds = <<>> => NumSent(ADD_TOKEN_IDS) = 0
    /\ tx.dataInputs = <<>> => NumSent(ADD_DATA_INPUTS) = 0
    /\ \A n \in 1..NumStarted :
        (n <= Len(tx.outputs) /\ tx.outputs[n].registers = <<>>)
            => Count(BlockP1s(n), {ADD_OUTPUT_BOX_REGISTERS_CHUNK}) = 0
    /\ pc = "done" =>
        /\ NumSent(START_SIGNING) = 1
        /\ NumSent(START_TRANSACTION) = 1
        /\ NumSent(ADD_OUTPUT_BOX_START) = Len(tx.outputs)
        /\ NumSent(CONFIRM_AND_SIGN) = 1

C13_Witness ==
    /\ pc = "done"
    /\ tx.distinctTokenIds = <<>>
    /\ tx.dataInputs = <<>>
    /\ Len(tx.outputs) = 2
    /\ tx.outputs[1].registers = <<>>
    /\ tx.outputs[2].registers = <<>>

\* The payloads of the commands of one kind, in send order.
PayloadsOf(p1) ==
    LET cmds == SelectSeq(log, LAMBDA cmd : cmd.p1 = p1)
    IN [p \in 1..Len(cmds) |-> cmds[p].data]

\* Packet number p carries m whole ids of the list, 1 <= m <= 7, starting at
\* the id after those of the packets before it.
WholeIds(packet, ids, p) ==
    \E m \in 1..MAX_PACKET_SIZE :
        /\ (p - 1) * MAX_PACKET_SIZE + m <= Len(ids)
        /\ packet = Concat(SubSeq(ids, (p - 1) * MAX_PACKET_SIZE + 1, (p - 1) * MAX_PACKET_SIZE + m))

CeilDiv(n, d) == (n + d - 1) \div d

PacketsCarry(packets, ids) ==
    /\ \A p \in 1..Len(packets) : WholeIds(packets[p], ids, p)
    /\ pc = "done" =>
        /\ Len(packets) = CeilDiv(Len(ids), MAX_PACKET_SIZE)
        /\ Concat(packets) = Concat(ids)

DataInputBytes == [k \in 1..Len(tx.dataInputs) |-> FromHex(tx.dataInputs[k])]

\* C14: k distinct token ids go out in ceil(k/7) add-token-ids commands and
\* n data-input ids in ceil(n/7) add-data-inputs commands; every packet
\* carries between 1 and 7 whole ids, and the payloads, concatenated in send
\* order, are the ids of the list in their order.
C14_PacketsOfSeven ==
    /\ PacketsCarry(PayloadsOf(ADD_TOKEN_IDS), tx.distinctTokenIds)
    /\ PacketsCarry(PayloadsOf(ADD_DATA_INPUTS), DataInputBytes)

C14_Witness ==
    /\ pc = "done"
    /\ Len(tx.distinctTokenIds) = MAX_PACKET_SIZE + 1
    /\ Len(tx.dataInputs) = 2 * MAX_PACKET_SIZE + 1
    /\ NumSent(ADD_TOKEN_IDS) = 2
    /\ NumSent(ADD_DATA_INPUTS) = 3

\* C15: the payload of start-signing is the network tag, then the encoded
\* signing path, then the 4-byte auth token when one is supplied and nothing
\* when none is; the session id is the first byte of the response.
C15_HeaderPayload ==
    /\ Len(log) > 0 =>
        /\ log[1].p1 = START_SIGNING
        /\ log[1].data = uint8(network) \o bip32Path(signPath)
                            \o (IF Truthy(authToken) THEN uint32(Val(authToken)) ELSE <<>>)
    /\ IsDefined(sessionId) => Val(sessionId) = resps[1].data[1]

\* The miner-fee script constant of a network.
FeeScriptOf(net) == IF net = Mainnet THEN MAINNET_MINER_FEE_TREE ELSE TESTNET_FEE_TREE

\* C16: an output is sent as a fee output exactly when its script is the
\* miner-fee script constant of the network the session signs for, and the
\* two variants of the driver take the same tree step for every output.
C16_FeeOfSessionNetwork ==
    /\ \A n \in 1..NumStarted :
        BlockCmds(n) # <<>> =>
            (BlockCmds(n)[1].p1 = ADD_OUTPUT_BOX_MINERS_FEE_TREE
                <=> ToHex(tx.outputs[n].ergoTree) = FeeScriptOf(network))
    /\ \A n \in 1..Len(tx.outputs) :
        TreeStep("signTx.ts", tx.outputs[n], tx.changeMap)
            = TreeStep("erg.ts", tx.outputs[n], tx.changeMap)

\* C17: the token an ErgoApp holds is a value in 1..0xffffffff: a non-zero
\* token given to the constructor is kept as long as newAuthToken has not
\* run, a zero one is replaced by the constructor, and after newAuthToken the
\* token differs from the one held just before the call.
C17_AuthTokenNonZero ==
    IsDefined(this_authToken) =>
        /\ Val(this_authToken) \in 1..TokenSpan
        /\ previous = None => (Val(given) # 0 /\ this_authToken = given)
        /\ Val(given) = 0 => IsDefined(previous)
        /\ IsDefined(previous) => Val(this_authToken) # Val(previous)

C17_Witness ==
    /\ given = Some(0)
    /\ IsDefined(previous)
    /\ Val(previous) # 0
    /\ IsDefined(this_authToken)
    /\ Val(this_authToken) # Val(previous)

\* A path the address requests refuse.
Refused(path) == Len(path) < 5 \/ path[4].h \/ path[4].n \notin {0, 1}

InputP1s == {ADD_INPUT_BOX_FRAME, ADD_INPUT_BOX_CONTEXT_EXTENSION_CHUNK}

\* What one input puts on the channel: a frame command per frame, in order,
\* then the chunks of its extension when it is defined and not empty.
InputStreamOf(box) ==
    [k \in 1..Len(box.frames) |-> [p1 |-> ADD_INPUT_BOX_FRAME, data |-> box.frames[k]]]
        \o (IF IsDefined(box.extension) /\ Val(box.extension) # <<>>
            THEN [k \in 1..Len(DataChunks(Val(box.extension))) |->
                    [p1 |-> ADD_INPUT_BOX_CONTEXT_EXTENSION_CHUNK,
                     data |-> DataChunks(Val(box.extension))[k]]]
            ELSE <<>>)

ExpectedInputStream == Concat([b \in 1..Len(tx.inputs) |-> InputStreamOf(tx.inputs[b])])

\* The input commands on the channel, in send order.
SentInputStream ==
    LET cmds == SelectSeq(log, LAMBDA cmd : cmd.p1 \in InputP1s)
    IN [k \in 1..Len(cmds) |-> [p1 |-> cmds[k].p1, data |-> cmds[k].data]]

TotalFrames ==
    Cardinality(UNION {{<<b, k>> : k \in 1..Len(tx.inputs[b].frames)} : b \in 1..Len(tx.inputs)})

\* C19: the input commands on the channel are, in order, a prefix of the
\* stream of the inputs in list order (the frames of an input, then its
\* extension chunks exactly when the extension is defined and not empty),
\* with no other command in between; in a completed run they are the whole
\* stream, and the frame commands are as many as the frames.
C19_InputsInOrder ==
    /\ Len(SentInputStream) <= Len(ExpectedInputStream)
    /\ SentInputStream = SubSeq(ExpectedInputStream, 1, Len(SentInputStream))
    /\ \A k, m \in 1..Len(log) :
        (k < m /\ log[k].p1 \in InputP1s /\ log[m].p1 \in InputP1s)
            => \A n \in k..m : log[n].p1 \in InputP1s
    /\ pc = "done" =>
        /\ SentInputStream = ExpectedInputStream
        /\ NumSent(ADD_INPUT_BOX_FRAME) = TotalFrames

C19_Witness ==
    /\ pc = "done"
    /\ Len(tx.inputs) = 2
    /\ [k \in 1..Len(SentInputStream) |-> SentInputStream[k].p1]
        = <<ADD_INPUT_BOX_FRAME, ADD_INPUT_BOX_FRAME,
            ADD_INPUT_BOX_CONTEXT_EXTENSION_CHUNK, ADD_INPUT_BOX_CONTEXT_EXTENSION_CHUNK,
            ADD_INPUT_BOX_FRAME>>
    /\ tx.inputs[2].extension = Some(<<>>)

\* The ids the packets carry: their bytes over the length of one id.
IdsCarried(packets, ids) ==
    IF ids = <<>> THEN Len(Concat(packets)) ELSE Len(Concat(packets)) \div Len(ids[1])

\* The (index, amount) entries of the add-output-tokens commands of the n-th
\* output: 4 bytes of index and 8 bytes of amount each.
TokenEntries(n) ==
    LET cmds == SelectSeq(BlockCmds(n), LAMBDA cmd : cmd.p1 = ADD_OUTPUT_BOX_TOKENS)
    IN Len(Concat([k \in 1..Len(cmds) |-> cmds[k].data])) \div 12

\* C20: in a completed run the counts announced are the counts streamed: the
\* distinct-token count of start-transaction is the number of ids in the
\* add-token-ids commands, its data-input count the number of ids in the
\* add-data-inputs commands, its output count the number of add-output-start
\* commands, and the token count in the header of each output the number of
\* entries in its add-output-tokens payload.
C20_AnnouncedIsStreamed ==
    pc = "done" =>
        LET start == log[2].data
        IN /\ log[2].p1 = START_TRANSACTION
           /\ DecodeUint(SubSeq(start, 5, 5))
                = IdsCarried(PayloadsOf(ADD_TOKEN_IDS), tx.distinctTokenIds)
           /\ DecodeUint(SubSeq(start, 3, 4))
                = IdsCarried(PayloadsOf(ADD_DATA_INPUTS), DataInputBytes)
           /\ DecodeUint(SubSeq(start, 6, 7)) = NumSent(ADD_OUTPUT_BOX_START)
           /\ \A n \in 1..NumStarted :
                DecodeUint(SubSeq(log[StartPos(n)].data, 17, 17)) = TokenEntries(n)

C20_Witness ==
    /\ pc = "done"
    /\ DecodeUint(SubSeq(log[2].data, 5, 5)) = 2
    /\ NumSent(ADD_OUTPUT_BOX_START) = 2
    /\ TokenEntries(1) = 2
    /\ TokenEntries(2) = 1

\* The bytes of a start-signing or derive-address payload after the encoded
\* path, the length byte of the path being at position at.
BytesAfterPath(data, at) == SubSeq(data, at + 4 * data[at] + 1, Len(data))

\* The flag and the payload of a command agree with each other and with the
\* token the command was built for.
FlagAgrees(cmd, at, token) ==
    LET bytes == BytesAfterPath(cmd.data, at)
    IN /\ cmd.p2 \in {WITH_TOKEN, WITHOUT_TOKEN}
       /\ cmd.p2 = WITH_TOKEN <=> Len(bytes) = 4
       /\ cmd.p2 = WITHOUT_TOKEN <=> bytes = <<>>
       /\ IF IsDefined(token) /\ Val(token) # 0
          THEN cmd.p2 = WITH_TOKEN /\ bytes = uint32(Val(token))
          ELSE cmd.p2 = WITHOUT_TOKEN /\ bytes = <<>>

\* The start-signing command of either variant, as sendHeader sends it.
HeaderCommand(drv, net, path, token) ==
    Command(START_SIGNING, HeaderP2(token), HeaderData(drv, net, path, token))

\* C21: in a start-signing and in a derive-address command p2 is WITH_TOKEN
\* exactly when the 4 bytes of the token end the payload, and it is
\* WITHOUT_TOKEN with nothing after the path when the token is absent or
\* zero, here for the start-signing commands of both variants built for the
\* token the app was constructed with and for what getAuthToken yields; a
\* request made through ErgoApp carries the token of the app when the caller
\* set useAuthToken and no token otherwise.
C21_TokenFlagAgrees ==
    /\ \A drv \in Drivers, token \in {getAuthToken(TRUE), getAuthToken(FALSE), given} :
        FlagAgrees(HeaderCommand(drv, network, signPath, token),
                   IF drv = "erg.ts" THEN 2 ELSE 1, token)
    /\ (IsDefined(request) /\ Len(log) > Val(request).sentBefore) =>
        LET req == Val(request)
        IN /\ FlagAgrees(log[Len(log)], 2, req.authToken)
           /\ req.via = "ErgoApp" =>
                /\ req.authToken = (IF Val(req.useAuthToken) THEN this_authToken ELSE None)
                /\ log[Len(log)].p2 = WITH_TOKEN <=> Val(req.useAuthToken)

C21_Witness ==
    /\ IsDefined(request)
    /\ Val(request).via = "ErgoApp"
    /\ Val(request).useAuthToken = Some(TRUE)
    /\ Val(request).state = "settled"
    /\ Len(log) = 1
    /\ log[1].ins = "DERIVE_ADDRESS"
    /\ log[1].p2 = WITH_TOKEN
    /\ BytesAfterPath(log[1].data, 2) = uint32(Val(this_authToken))
    /\ Val(answer).kind = "returned"

==============================================================================
